---- MODULE Spec2Model ----
(***************************************************************************)
(* WHO growth z-score service (dntrply/growth-api).                       *)
(*                                                                         *)
(* Two entry points define the same POST /zscore handler, compute_z:       *)
(*   src/main.py        def compute_z        (run in the thread pool)      *)
(*   src/api/zscore.py  async def compute_z  (run on the event loop)       *)
(* Both load a process-wide dictionary `tables` of pandas frames at        *)
(* import time and, per request, select a frame, coerce its key column     *)
(* with pd.to_numeric(errors="coerce") IN PLACE, select the rows whose     *)
(* key equals the query key, and score the measurement with Cole's LMS     *)
(* formula.                                                                *)
(*                                                                         *)
(* Numbers.  Python floats are modelled by exact rationals: measurements,  *)
(* keys, L and M are integers, S is a fraction v / d, and the z-score is   *)
(* a fraction zn / zd with zd > 0.    L ranges over small integers so the  *)
(* power (meas / M) ** L stays rational.  z_score is held in tenths.       *)
(* Each pandas call (column read, column assignment, row selection) is     *)
(* one atomic step.                                                        *)
(***************************************************************************)
EXTENDS Integers, Sequences, FiniteSets, TLC

\* Bounds of the request fields that are enumerated.
MaxYears == 1
MaxMonths == 1
MaxMeas == 3
\* Number of concurrent requests in the thread-pool specification.
NThreads == 2

VARIABLES
    entry,    \* "main" (src/main.py) or "api" (src/api/zscore.py)
    data,     \* which datasets the data directory holds (see Files)
    phase,    \* "startup" | "serving" | "failed" (import raised)
    tables,   \* the module-level dictionary `tables`
    resp,     \* the response of the last sequential call, not yet delivered
    thr       \* per worker thread: position and locals of a running call

vars == <<entry, data, phase, tables, resp, thr>>

-----------------------------------------------------------------------------
(* Optional values: pydantic fields declared `= None`.                      *)
None == <<>>
Some(v) == <<v>>
Val(x) == x[1]
Opt(S) == {None} \cup {Some(v) : v \in S}

(* str.upper() and str.lower() on the strings the requests carry.           *)
Upper(s) ==
    CASE s = "m" -> "M"
      [] s = "f" -> "F"
      [] s = "x" -> "X"
      [] OTHER -> s

Lower(s) ==
    CASE s = "LENGTH" -> "length"
      [] s = "WEIGHT" -> "weight"
      [] s = "WFL" -> "wfl"
      [] s = "BMI" -> "bmi"
      [] OTHER -> s

Sexes == {"M", "f", "X"}
Indicators == {"length", "weight", "WFL", "bmi"}

(* class ZScoreRequest(BaseModel)                                           *)
ZScoreRequest ==
    [sex : Sexes, indicator : Indicators,
     years : Opt(0..MaxYears), months : Opt(0..MaxMonths),
     length : Opt(0..MaxMeas), weight : Opt(0..MaxMeas)]

-----------------------------------------------------------------------------
(* Cells of a data frame.  A column read by pd.read_csv is numeric when      *)
(* every cell parses as a number and is left as text (dtype object)         *)
(* otherwise; pd.to_numeric(errors="coerce") turns text into a number or    *)
(* NaN.  A number is the rational v / d with d > 0.                         *)
Rat(n, d) == [t |-> "num", v |-> n, d |-> d, s |-> <<>>]
Num(n) == Rat(n, 1)
Str(s) == [t |-> "str", v |-> 0, d |-> 1, s |-> s]
NaN == [t |-> "nan", v |-> 0, d |-> 1, s |-> <<>>]

DigitChars == <<"0", "1", "2", "3", "4", "5", "6", "7", "8", "9">>
IsDigit(c) == \E i \in DOMAIN DigitChars : DigitChars[i] = c
DigitVal(c) == (CHOOSE i \in DOMAIN DigitChars : DigitChars[i] = c) - 1

IsNumeral(s) == Len(s) > 0 /\ \A i \in DOMAIN s : IsDigit(s[i])

RECURSIVE ParseInt(_)
ParseInt(s) ==
    IF Len(s) = 0 THEN 0
    ELSE ParseInt(SubSeq(s, 1, Len(s) - 1)) * Len(DigitChars) + DigitVal(s[Len(s)])

(* A coercion that parses text only and turns any other cell into NaN, as   *)
(* parsing through the .str accessor would.                                 *)
ToNumericTextOnly(cell) ==
    IF cell.t = "str" /\ IsNumeral(cell.s) THEN Num(ParseInt(cell.s)) ELSE NaN

(* pd.to_numeric(column, errors="coerce"), cell by cell.                    *)
ToNumeric(cell) ==
    CASE cell.t = "num" -> cell
      [] cell.t = "nan" -> cell
      [] OTHER -> IF IsNumeral(cell.s) THEN Num(ParseInt(cell.s)) ELSE NaN

-----------------------------------------------------------------------------
(* The datasets of the data directory.  The repository's CSV files are not  *)
(* part of the sources, so small tables of the same shape stand in for      *)
(* them: a key column (Month, or the length as first column) and L, M, S    *)
(* with M > 0 and S > 0.                                                    *)
Row(col, k, l, m, sn, sd) ==
    (col :> Str(k)) @@ [L |-> Num(l), M |-> Num(m), S |-> Rat(sn, sd)]

AgeCols == <<"Month", "L", "M", "S">>
WflCols == <<"Length", "L", "M", "S">>

File(cols, rows) == [present |-> TRUE, cols |-> cols, rows |-> rows]
NoFile == [present |-> FALSE, cols |-> <<>>, rows |-> <<>>]

FileKeys == {"M", "F"} \X {"length", "weight", "wfl"}

CleanFiles ==
    (<<"M", "length">> :> File(AgeCols,
        << Row("Month", <<"0">>, 1, 1, 1, 2),
           Row("Month", <<"1">>, 1, 3, 1, 3),
           Row("Month", <<"1", "3">>, 1, 1, 49, 50) >>))
 @@ (<<"M", "weight">> :> File(AgeCols,
        << Row("Month", <<"0">>, -1, 3, 2, 3),
           Row("Month", <<"1">>, -1, 1, 33, 100),
           Row("Month", <<"1", "3">>, 0, 2, 1, 2) >>))
 @@ (<<"M", "wfl">> :> File(WflCols,
        << Row("Length", <<"1">>, -1, 3, 1, 1),
           Row("Length", <<"3">>, 2, 2, 1, 2) >>))
 @@ (<<"F", "length">> :> File(AgeCols,
        << Row("Month", <<"0">>, 1, 3, 1, 4),
           Row("Month", <<"1">>, 1, 2, 1, 2),
           Row("Month", <<"1", "3">>, 1, 2, 1, 4) >>))
 @@ (<<"F", "weight">> :> File(AgeCols,
        << Row("Month", <<"0">>, -1, 3, 1, 2),
           Row("Month", <<"1">>, -1, 1, 1, 3),
           Row("Month", <<"1", "3">>, 2, 1, 3, 4) >>))
 @@ (<<"F", "wfl">> :> File(WflCols,
        << Row("Length", <<"1">>, 1, 1, 1, 2),
           Row("Length", <<"3">>, -1, 2, 1, 3) >>))

(* The same datasets, the boys' ones with a trailing footnote line whose    *)
(* key cell is not a number: read_csv then leaves their whole key column    *)
(* as text.                                                                 *)
WithFootnote(f) ==
    [f EXCEPT !.rows = Append(f.rows, Row(f.cols[1], <<"x">>, 1, 1, 1, 1))]

FootnoteFiles ==
    [k \in FileKeys |->
       IF k[1] = "M" THEN WithFootnote(CleanFiles[k]) ELSE CleanFiles[k]]

(* Structurally invalid deployments: one dataset absent, or one dataset     *)
(* without one of its columns.                                              *)
DropColumn(f, c) ==
    [f EXCEPT !.cols = SelectSeq(f.cols, LAMBDA x : x # c),
              !.rows = [i \in DOMAIN f.rows |->
                          [x \in DOMAIN f.rows[i] \ {c} |-> f.rows[i][x]]]]

Deployment(kind, key, col) == [kind |-> kind, key |-> key, col |-> col]

Clean == Deployment("clean", <<"", "">>, "")
Footnote == Deployment("footnote", <<"", "">>, "")

Broken ==
    {Deployment("nofile", k, "") : k \in FileKeys}
    \cup {Deployment("nocol", k, CleanFiles[k].cols[j]) :
            k \in FileKeys, j \in DOMAIN AgeCols}

Files(d) ==
    CASE d.kind = "clean" -> CleanFiles
      [] d.kind = "footnote" -> FootnoteFiles
      [] d.kind = "nofile" -> [CleanFiles EXCEPT ![d.key] = NoFile]
      [] OTHER -> [CleanFiles EXCEPT ![d.key] = DropColumn(@, d.col)]

(* pd.read_csv: per column, numeric when every cell parses.                 *)
ColumnParses(f, c) == \A i \in DOMAIN f.rows : ToNumeric(f.rows[i][c]).t = "num"

ReadCsv(f) ==
    [cols |-> f.cols,
     rows |-> [i \in DOMAIN f.rows |->
                 [c \in DOMAIN f.rows[i] |->
                    IF ColumnParses(f, c) THEN ToNumeric(f.rows[i][c])
                    ELSE f.rows[i][c]]]]

(* The keys of the `tables` literal of each entry point.                    *)
TableKeys(e) ==
    IF e = "main"
    THEN {<<"M", "length">>, <<"M", "weight">>, <<"M", "wfl">>,
          <<"F", "weight">>, <<"F", "wfl">>}
    ELSE {<<"M", "length">>, <<"M", "weight">>, <<"M", "wfl">>,
          <<"F", "length">>, <<"F", "weight">>, <<"F", "wfl">>}

-----------------------------------------------------------------------------
(* Responses.  An HTTPException(status, detail), FastAPI's answer to an     *)
(* exception the handler does not catch, or the returned dictionary.        *)
HttpError(status, detail) ==
    [status |-> status, detail |-> detail, z_score |-> 0, classification |-> ""]

Returned(zs, cat) ==
    [status |-> 200, detail |-> "", z_score |-> zs, classification |-> cat]

Unhandled == HttpError(500, "Internal Server Error")

UnknownTable == HttpError(400, "Unknown sex or indicator")
NeedAge == HttpError(400, "Provide both years and months")
NeedBoth == HttpError(400, "Provide both length (cm) and weight (kg)")
NoData == HttpError(400, "No data for given age or length")

MissingMonth(e) ==
    HttpError(500, IF e = "main" THEN "Invalid table: missing Month"
                   ELSE "Invalid table: missing Month column")

NeedMeas(ind) ==
    HttpError(400, IF ind = "length" THEN "Provide length (cm)"
                   ELSE "Provide weight (kg)")

(* The locals L, M, S, meas and z of a call, kept with its response.        *)
NoLocals ==
    [matched |-> FALSE, scored |-> FALSE, L |-> 0, M |-> 0, S |-> Num(0),
     meas |-> 0, zn |-> 0, zd |-> 1]

-----------------------------------------------------------------------------
(* total_months = request.years * 12 + request.months                       *)
TotalMonths(years, months) == years * 12 + months

(* meas = request.length if ind == "length" else request.weight             *)
MeasOf(req, ind) == IF ind = "length" THEN req.length ELSE req.weight

(* Steps 1 and 2 up to the column coercion: table choice, required fields,  *)
(* key column and query key.                                                *)
Proceed(key, ind, col, q) ==
    [done |-> FALSE, out |-> Unhandled, key |-> key, ind |-> ind,
     col |-> col, q |-> q]

Reject(out) ==
    [done |-> TRUE, out |-> out, key |-> <<"", "">>, ind |-> "",
     col |-> "", q |-> 0]

Prepare(e, req, tbls) ==
    LET sex == Upper(req.sex)
        ind == Lower(req.indicator)
        key == <<sex, ind>>
    IN  IF key \notin DOMAIN tbls THEN Reject(UnknownTable)
        ELSE IF ind \in {"length", "weight"}
        THEN IF req.years = None \/ req.months = None THEN Reject(NeedAge)
             ELSE IF \A j \in DOMAIN tbls[key].cols : tbls[key].cols[j] # "Month"
             THEN Reject(MissingMonth(e))
             ELSE Proceed(key, ind, "Month",
                          TotalMonths(Val(req.years), Val(req.months)))
        ELSE IF req.length = None \/ req.weight = None THEN Reject(NeedBoth)
             ELSE Proceed(key, ind, tbls[key].cols[1], Val(req.length))

(* df[col], pd.to_numeric(df[col], errors="coerce") and df[col] = t         *)
Column(df, col) == [i \in DOMAIN df.rows |-> df.rows[i][col]]

(* The column coerced by the text-only coercion.                            *)
ToNumericColumnTextOnly(c) == [i \in DOMAIN c |-> ToNumericTextOnly(c[i])]

ToNumericColumn(c) == [i \in DOMAIN c |-> ToNumeric(c[i])]

SetColumn(df, col, t) ==
    [df EXCEPT !.rows = [i \in DOMAIN df.rows |->
                           [df.rows[i] EXCEPT ![col] = t[i]]]]

(* A comparison df[col] <= q, which also selects the rows below the key.    *)
KeyAtMost(cell, q) == cell.t = "num" /\ cell.v <= q * cell.d

(* df[col] == q, element-wise: text and NaN equal no number.                *)
KeyEquals(cell, q) == cell.t = "num" /\ cell.v = q * cell.d

Mask(df, col, q) == [i \in DOMAIN df.rows |-> KeyEquals(df.rows[i][col], q)]

(* df.loc[mask]                                                             *)
RECURSIVE Loc(_, _)
Loc(rows, mask) ==
    IF Len(rows) = 0 \/ Len(mask) = 0 THEN <<>>
    ELSE IF Head(mask) THEN <<Head(rows)>> \o Loc(Tail(rows), Tail(mask))
         ELSE Loc(Tail(rows), Tail(mask))

-----------------------------------------------------------------------------
(* z = ((meas / M) ** L - 1) / (L * S) as the fraction zn / zd, zd > 0.     *)
RECURSIVE Pow(_, _)
Pow(b, k) == IF k = 0 THEN 1 ELSE b * Pow(b, k - 1)

Abs(x) == IF x < 0 THEN -x ELSE x

(* ZeroDivisionError: meas / M with M = 0, 0.0 ** L with L < 0, and the     *)
(* division by L * S = 0.                                                   *)
DividesByZero(meas, l, m, s) ==
    m = 0 \/ (meas = 0 /\ l < 0) \/ l * s.v = 0

(* The formula without its "- 1": (meas / M) ** L / (L * S).                *)
ZScoreNoMinusOne(meas, l, m, s) ==
    LET k == Abs(l)
        n == Pow(IF l > 0 THEN meas ELSE m, k) * s.d
        d == Pow(IF l > 0 THEN m ELSE meas, k) * l * s.v
    IN  IF d < 0 THEN [n |-> -n, d |-> -d] ELSE [n |-> n, d |-> d]

ZScore(meas, l, m, s) ==
    LET k == Abs(l)
        n == (Pow(meas, k) - Pow(m, k)) * s.d
        d == Pow(IF l > 0 THEN m ELSE meas, k) * l * s.v
        dd == IF l > 0 THEN d ELSE -d
    IN  IF dd < 0 THEN [n |-> -n, d |-> -dd] ELSE [n |-> n, d |-> dd]

(* round(z, 1), in tenths: the nearest tenth, a tie going to the even one.  *)
RoundTenths(zn, zd) ==
    LET n == 10 * zn
        q == n \div zd
        r == n % zd
    IN  IF 2 * r < zd THEN q
        ELSE IF 2 * r > zd THEN q + 1
        ELSE IF q % 2 = 0 THEN q ELSE q + 1

(* Step 5 testing z_rounded instead of z.                                   *)
ClassifiedRounded(zn, zd) == [n |-> RoundTenths(zn, zd), d |-> 10]

(* The value step 5 tests: z, not z_rounded.                                *)
ClassifiedValue(zn, zd) == [n |-> zn, d |-> zd]

(* The chains with `z <= -3` for the severe category.                       *)
ClassifyInclusive(ind, zn, zd) ==
    IF ind = "length"
    THEN IF zn <= -3 * zd THEN "Severely stunted"
         ELSE IF zn < -2 * zd THEN "Moderately stunted"
         ELSE IF zn <= 2 * zd THEN "Normal"
         ELSE "Tall"
    ELSE IF ind = "weight"
    THEN IF zn <= -3 * zd THEN "Severe underweight"
         ELSE IF zn < -2 * zd THEN "Underweight"
         ELSE IF zn <= 2 * zd THEN "Normal"
         ELSE "Overweight"
    ELSE IF zn <= -3 * zd THEN "Severe wasting"
         ELSE IF zn < -2 * zd THEN "Wasting"
         ELSE IF zn <= 2 * zd THEN "Normal"
         ELSE "Overweight"

(* Step 5: the three if / elif chains on the unrounded z.                   *)
Classify(ind, zn, zd) ==
    IF ind = "length"
    THEN IF zn < -3 * zd THEN "Severely stunted"
         ELSE IF zn < -2 * zd THEN "Moderately stunted"
         ELSE IF zn <= 2 * zd THEN "Normal"
         ELSE "Tall"
    ELSE IF ind = "weight"
    THEN IF zn < -3 * zd THEN "Severe underweight"
         ELSE IF zn < -2 * zd THEN "Underweight"
         ELSE IF zn <= 2 * zd THEN "Normal"
         ELSE "Overweight"
    ELSE IF zn < -3 * zd THEN "Severe wasting"
         ELSE IF zn < -2 * zd THEN "Wasting"
         ELSE IF zn <= 2 * zd THEN "Normal"
         ELSE "Overweight"

(* Steps 3 to 5 on the first selected row.                                  *)
Score(ind, meas, row) ==
    IF ~({"L", "M", "S"} \subseteq DOMAIN row)
    THEN [out |-> Unhandled, loc |-> [NoLocals EXCEPT !.matched = TRUE]]
    ELSE LET l == row["L"].v
             m == row["M"].v
             s == row["S"]
             loc == [NoLocals EXCEPT !.matched = TRUE, !.L = l, !.M = m,
                                     !.S = s, !.meas = meas]
         IN  IF DividesByZero(meas, l, m, s)
             THEN [out |-> Unhandled, loc |-> loc]
             ELSE LET z == ZScore(meas, l, m, s)
                      c == ClassifiedValue(z.n, z.d)
                  IN  [out |-> Returned(RoundTenths(z.n, z.d),
                                        Classify(ind, c.n, c.d)),
                       loc |-> [loc EXCEPT !.scored = TRUE,
                                           !.zn = z.n, !.zd = z.d]]

(* The two checks in the other order: row.empty before the measurement.     *)
FinishEmptyFirst(req, ind, row) ==
    LET meas == MeasOf(req, ind)
    IN  IF Len(row) = 0 THEN [out |-> NoData, loc |-> NoLocals]
        ELSE IF meas = None THEN [out |-> NeedMeas(ind), loc |-> NoLocals]
        ELSE Score(ind, Val(meas), row[1])

(* The rest of the handler once `row` is selected: the measurement of an    *)
(* age-indexed indicator is required only here, then row.empty.             *)
Finish(req, ind, row) ==
    LET meas == MeasOf(req, ind)
    IN  IF meas = None THEN [out |-> NeedMeas(ind), loc |-> NoLocals]
        ELSE IF Len(row) = 0 THEN [out |-> NoData, loc |-> NoLocals]
        ELSE Score(ind, Val(meas), row[1])

(* compute_z as one call on the tables `tbls`: the response, the locals     *)
(* and the tables it leaves.                                                *)
ComputeZ(e, req, tbls) ==
    LET p == Prepare(e, req, tbls)
    IN  IF p.done THEN [out |-> p.out, loc |-> NoLocals, tables |-> tbls]
        ELSE LET df == SetColumn(tbls[p.key], p.col,
                                 ToNumericColumn(Column(tbls[p.key], p.col)))
                 row == Loc(df.rows, Mask(df, p.col, p.q))
                 fin == Finish(req, p.ind, row)
             IN  [out |-> fin.out, loc |-> fin.loc,
                  tables |-> [tbls EXCEPT ![p.key] = df]]

-----------------------------------------------------------------------------
NoRequest ==
    [sex |-> "", indicator |-> "", years |-> None, months |-> None,
     length |-> None, weight |-> None]

Idle ==
    [pc |-> "idle", req |-> NoRequest, p |-> Reject(Unhandled), t |-> <<>>,
     mask |-> <<>>, out |-> Unhandled, loc |-> NoLocals]

Init ==
    /\ entry \in {"main", "api"}
    /\ data \in {Clean, Footnote}
    /\ phase = "startup"
    /\ tables = <<>>
    /\ resp = <<>>
    /\ thr = [i \in 1..NThreads |-> Idle]

(* The `tables` literal evaluated on the datasets of deployment d.          *)
Loaded(e, d) == [k \in TableKeys(e) |-> ReadCsv(Files(d)[k])]

(* An import that skips the datasets it does not find.                     *)
LoadSkippingMissing ==
    /\ phase = "startup"
    /\ phase' = "serving"
    /\ tables' = [k \in {x \in TableKeys(entry) : Files(data)[x].present} |->
                    ReadCsv(Files(data)[k])]
    /\ UNCHANGED <<entry, data, resp, thr>>

(* Import of the module: the `tables` literal reads every dataset; a        *)
(* missing file raises and the process does not start.                      *)
Load ==
    /\ phase = "startup"
    /\ IF \E k \in TableKeys(entry) : ~Files(data)[k].present
       THEN /\ phase' = "failed"
            /\ UNCHANGED tables
       ELSE /\ phase' = "serving"
            /\ tables' = Loaded(entry, data)
    /\ UNCHANGED <<entry, data, resp, thr>>

(* POST /zscore handled from start to end, one request at a time.           *)
Call ==
    /\ phase = "serving"
    /\ resp = <<>>
    /\ \E req \in ZScoreRequest :
         LET c == ComputeZ(entry, req, tables)
         IN  /\ tables' = c.tables
             /\ resp' = <<[req |-> req, out |-> c.out, loc |-> c.loc]>>
    /\ UNCHANGED <<entry, data, phase, thr>>

(* The response leaves the process.                                         *)
Deliver ==
    /\ resp # <<>>
    /\ resp' = <<>>
    /\ UNCHANGED <<entry, data, phase, tables, thr>>

Next ==
    \/ Load
    \/ Call
    \/ Deliver

Spec == Init /\ [][Next]_vars

(* The same process started on a deployment that may be structurally        *)
(* invalid.                                                                 *)
InitLoad ==
    /\ entry \in {"main", "api"}
    /\ data \in {Clean} \cup Broken
    /\ phase = "startup"
    /\ tables = <<>>
    /\ resp = <<>>
    /\ thr = [i \in 1..NThreads |-> Idle]

SpecLoad == InitLoad /\ [][Next]_vars

-----------------------------------------------------------------------------
(* Concurrent calls.  src/main.py declares `def compute_z`, which FastAPI   *)
(* runs in its thread pool, so calls interleave at every access to the      *)
(* shared frames; src/api/zscore.py declares `async def compute_z` with no  *)
(* await, so a call runs to its end before the next one starts.             *)
ConcRequests ==
    {r \in ZScoreRequest :
        /\ r.sex = "M"
        /\ r.indicator \in {"length", "WFL"}
        /\ r.years = Some(0)
        /\ r.months \in {Some(0), Some(1)}
        /\ r.length \in {None, Some(1)}
        /\ r.weight = Some(1)}

CanRun(i) ==
    \/ entry = "main"
    \/ \A j \in DOMAIN thr : j # i => thr[j].pc \in {"idle", "done"}

Step(i, pc) == phase = "serving" /\ thr[i].pc = pc /\ CanRun(i)

(* Steps 1 and 2 up to the first access to the key column.                  *)
StartCall(i) ==
    /\ Step(i, "idle")
    /\ \E req \in ConcRequests :
         LET p == Prepare(entry, req, tables)
         IN  thr' = [thr EXCEPT ![i] =
                       [@ EXCEPT !.req = req, !.p = p, !.out = p.out,
                                 !.pc = IF p.done THEN "done" ELSE "read"]]
    /\ UNCHANGED <<entry, data, phase, tables, resp>>

(* pd.to_numeric(df[col], errors="coerce")                                  *)
ReadColumn(i) ==
    /\ Step(i, "read")
    /\ thr' = [thr EXCEPT ![i] =
                 [@ EXCEPT !.t = ToNumericColumn(
                                    Column(tables[thr[i].p.key], thr[i].p.col)),
                           !.pc = "write"]]
    /\ UNCHANGED <<entry, data, phase, tables, resp>>

(* df[col] = ...                                                            *)
AssignColumn(i) ==
    /\ Step(i, "write")
    /\ tables' = [tables EXCEPT ![thr[i].p.key] =
                    SetColumn(@, thr[i].p.col, thr[i].t)]
    /\ thr' = [thr EXCEPT ![i].pc = "mask"]
    /\ UNCHANGED <<entry, data, phase, resp>>

(* df[col] == key                                                           *)
CompareColumn(i) ==
    /\ Step(i, "mask")
    /\ thr' = [thr EXCEPT ![i] =
                 [@ EXCEPT !.mask = Mask(tables[thr[i].p.key], thr[i].p.col,
                                         thr[i].p.q),
                           !.pc = "loc"]]
    /\ UNCHANGED <<entry, data, phase, tables, resp>>

(* row = df.loc[...] and the rest of the handler, which is local.           *)
SelectRows(i) ==
    /\ Step(i, "loc")
    /\ LET me == thr[i]
           fin == Finish(me.req, me.p.ind,
                         Loc(tables[me.p.key].rows, me.mask))
       IN  thr' = [thr EXCEPT ![i] =
                     [@ EXCEPT !.out = fin.out, !.loc = fin.loc, !.pc = "done"]]
    /\ UNCHANGED <<entry, data, phase, tables, resp>>

(* The response leaves the process and the worker is free again.            *)
ReturnCall(i) ==
    /\ Step(i, "done")
    /\ thr' = [thr EXCEPT ![i] = Idle]
    /\ UNCHANGED <<entry, data, phase, tables, resp>>

NextConc ==
    \/ Load
    \/ \E i \in 1..NThreads : StartCall(i)
    \/ \E i \in 1..NThreads : ReadColumn(i)
    \/ \E i \in 1..NThreads : AssignColumn(i)
    \/ \E i \in 1..NThreads : CompareColumn(i)
    \/ \E i \in 1..NThreads : SelectRows(i)
    \/ \E i \in 1..NThreads : ReturnCall(i)

SpecConc == Init /\ [][NextConc]_vars

-----------------------------------------------------------------------------
(* Properties.                                                              *)

Answered == resp # <<>>
Last == resp[1]
SexOf(req) == Upper(req.sex)
IndOf(req) == Lower(req.indicator)
KnownSexes == {"M", "F"}
KnownIndicators == {"length", "weight", "wfl"}
AgeIndexed == {"length", "weight"}

(* The category names of the classification table, by indicator.            *)
SevereName(ind) ==
    CASE ind = "length" -> "Severely stunted"
      [] ind = "weight" -> "Severe underweight"
      [] OTHER -> "Severe wasting"

ModerateName(ind) ==
    CASE ind = "length" -> "Moderately stunted"
      [] ind = "weight" -> "Underweight"
      [] OTHER -> "Wasting"

HighName(ind) == IF ind = "length" THEN "Tall" ELSE "Overweight"

(* C1: a returned classification is the severe category iff z < -3, the     *)
(* moderate one iff -3 <= z < -2, Normal iff -2 <= z <= 2 and the high one  *)
(* iff z > 2, z being the unrounded z-score of the call.                    *)
C1_Buckets ==
    (Answered /\ Last.out.status = 200) =>
        LET zn == Last.loc.zn
            zd == Last.loc.zd
            ind == IndOf(Last.req)
            cat == Last.out.classification
        IN  /\ cat = SevereName(ind) <=> zn < -3 * zd
            /\ cat = ModerateName(ind) <=> (-3 * zd <= zn /\ zn < -2 * zd)
            /\ cat = "Normal" <=> (-2 * zd <= zn /\ zn <= 2 * zd)
            /\ cat = HighName(ind) <=> zn > 2 * zd

(* C1 witness: a length-for-age call whose z is exactly -3 is answered      *)
(* Moderately stunted.                                                      *)
C1_Witness ==
    /\ Answered
    /\ Last.out.status = 200
    /\ Last.loc.zn = -3 * Last.loc.zd
    /\ Last.out.classification = "Moderately stunted"

(* The category the thresholds of the specification give a value.          *)
BucketOf(ind, zn, zd) ==
    IF zn < -3 * zd THEN SevereName(ind)
    ELSE IF zn < -2 * zd THEN ModerateName(ind)
    ELSE IF zn <= 2 * zd THEN "Normal"
    ELSE HighName(ind)

(* C2: the returned z_score is z rounded to one decimal (it lies within     *)
(* half a tenth of z), and the classification is the bucket of the          *)
(* unrounded z, whatever the bucket of the rounded value would be.          *)
C2_ClassifiedBeforeRounding ==
    (Answered /\ Last.out.status = 200) =>
        LET zn == Last.loc.zn
            zd == Last.loc.zd
        IN  /\ 2 * Abs(10 * zn - Last.out.z_score * zd) <= zd
            /\ Last.out.classification = BucketOf(IndOf(Last.req), zn, zd)

(* C2 witness: z slightly above 2 is reported as 2.0 and classified Tall.   *)
C2_Witness ==
    /\ Answered
    /\ Last.out.status = 200
    /\ Last.loc.zn > 2 * Last.loc.zd
    /\ Last.out.z_score = 20
    /\ Last.out.classification = "Tall"

(* The fields an indicator requires, and the query key of a request.        *)
HasRequiredFields(req) ==
    IF IndOf(req) \in AgeIndexed
    THEN req.years # None /\ req.months # None /\ MeasOf(req, IndOf(req)) # None
    ELSE req.length # None /\ req.weight # None

HasQueryKey(req) ==
    IF IndOf(req) \in AgeIndexed
    THEN req.years # None /\ req.months # None
    ELSE req.length # None

QueryKey(req) ==
    IF IndOf(req) \in AgeIndexed
    THEN Val(req.years) * 12 + Val(req.months)
    ELSE Val(req.length)

TableOf(req) == <<SexOf(req), IndOf(req)>>

(* The rows of the loaded table of a request whose key, read as a number,   *)
(* is the value q.                                                          *)
KeyValueIs(cell, q) ==
    \/ cell.t = "num" /\ cell.v = q * cell.d
    \/ cell.t = "str" /\ IsNumeral(cell.s) /\ ParseInt(cell.s) = q

RowsWithKey(req, q) ==
    LET df == Loaded(entry, data)[TableOf(req)]
    IN  {i \in DOMAIN df.rows : KeyValueIs(df.rows[i][df.cols[1]], q)}

(* C3 as stated: whenever no row of the selected table has the query key,   *)
(* the request ends with the no-match error.                                *)
C3_NoMatchWheneverNoRow ==
    (/\ Answered
     /\ TableOf(Last.req) \in DOMAIN tables
     /\ HasQueryKey(Last.req)
     /\ RowsWithKey(Last.req, QueryKey(Last.req)) = {})
        => Last.out = NoData

(* C3 amended: for a request that carries every field its indicator         *)
(* requires, no row with the query key means the no-match error, and a      *)
(* returned score is computed from L, M, S of a row with exactly that key.  *)
C3_ExactMatch ==
    (/\ Answered
     /\ TableOf(Last.req) \in DOMAIN tables
     /\ HasRequiredFields(Last.req))
        => LET hit == RowsWithKey(Last.req, QueryKey(Last.req))
               df == Loaded(entry, data)[TableOf(Last.req)]
           IN  /\ hit = {} => Last.out = NoData
               /\ Last.out.status = 200 =>
                    \E i \in hit : /\ df.rows[i]["L"].v = Last.loc.L
                                   /\ df.rows[i]["M"].v = Last.loc.M
                                   /\ df.rows[i]["S"] = Last.loc.S
               /\ Last.out = NoData => hit = {}

(* C3 witness: a complete request whose key lies between two tabulated      *)
(* keys ends with the no-match error.                                       *)
C3_Witness ==
    /\ Answered
    /\ TableOf(Last.req) \in DOMAIN tables
    /\ HasRequiredFields(Last.req)
    /\ Last.out = NoData
    /\ RowsWithKey(Last.req, QueryKey(Last.req) - 1) # {}
    /\ RowsWithKey(Last.req, QueryKey(Last.req) + 1) # {}

(* C4: a measurement equal to M of the matched row, with L and S non-zero,  *)
(* is answered z_score 0.0 and Normal.                                      *)
C4_MedianScoresZero ==
    (/\ Answered
     /\ Last.loc.matched
     /\ Last.loc.meas = Last.loc.M
     /\ Last.loc.L # 0
     /\ Last.loc.S.v # 0)
        => /\ Last.out.status = 200
           /\ Last.out.z_score = 0
           /\ Last.out.classification = "Normal"

(* C4 witness: the median of a row with negative L has been scored.         *)
C4_Witness ==
    /\ Answered
    /\ Last.loc.matched
    /\ Last.loc.meas = Last.loc.M
    /\ Last.loc.L < 0
    /\ Last.out.status = 200

(* The details of the validation errors.                                    *)
ValidationDetails ==
    {UnknownTable.detail, NeedAge.detail, NeedBoth.detail,
     NeedMeas("length").detail, NeedMeas("weight").detail}

(* C5: an unknown sex or indicator, or a missing required field, ends in a  *)
(* validation error (status 400, not the no-match message) and never in a   *)
(* score.                                                                   *)
C5_ValidationError ==
    (/\ Answered
     /\ \/ SexOf(Last.req) \notin KnownSexes
        \/ IndOf(Last.req) \notin KnownIndicators
        \/ ~HasRequiredFields(Last.req))
        => /\ Last.out.status = 400
           /\ Last.out.detail \in ValidationDetails
           /\ Last.out.detail # NoData.detail
           /\ (SexOf(Last.req) \notin KnownSexes => Last.out = UnknownTable)

(* C5 witness: the measurement is missing although a row has the key.       *)
C5_Witness ==
    /\ Answered
    /\ TableOf(Last.req) \in DOMAIN tables
    /\ HasQueryKey(Last.req)
    /\ RowsWithKey(Last.req, QueryKey(Last.req)) # {}
    /\ Last.req.length = None
    /\ Last.out = NeedMeas("length")

(* C6 as stated: while serving, a table exists for each of the six          *)
(* (sex, indicator) pairs, and no request with a known sex and a known      *)
(* indicator is answered Unknown sex or indicator.                          *)
C6_SixTables ==
    /\ phase = "serving" => DOMAIN tables = KnownSexes \X KnownIndicators
    /\ (/\ Answered
        /\ SexOf(Last.req) \in KnownSexes
        /\ IndOf(Last.req) \in KnownIndicators)
          => Last.out # UnknownTable

(* C7 as stated: while serving, the tables are what the startup load made   *)
(* them.                                                                    *)
C7_TablesNeverWritten ==
    phase = "serving" => tables = Loaded(entry, data)

(* C10: a response is the one the same request gets as the first request    *)
(* after startup, whatever was served before it.                            *)
C10_HistoryIndependent ==
    Answered => Last.out = ComputeZ(entry, Last.req, Loaded(entry, data)).out

(* C10 witness: a score is returned from a table that is no longer as       *)
(* loaded, after a request on another table has been served as well.        *)
C10_Witness ==
    /\ Answered
    /\ Last.out.status = 200
    /\ \E k \in DOMAIN tables \ {TableOf(Last.req)} :
          tables[k] # Loaded(entry, data)[k]
    /\ tables[TableOf(Last.req)] # Loaded(entry, data)[TableOf(Last.req)]

HasColumn(f, c) == \E j \in DOMAIN f.cols : f.cols[j] = c

ValidDataset(k, f) ==
    /\ f.present
    /\ HasColumn(f, IF k[2] \in AgeIndexed THEN "Month" ELSE "Length")
    /\ HasColumn(f, "L") /\ HasColumn(f, "M") /\ HasColumn(f, "S")

====
